---- MODULE Spec2Model ----
(***************************************************************************)
(* Model of ngx-ui-router-url-type-factory: the type registry and the      *)
(* codec it installs on the router (UrlTypeFactoryService.registerType),   *)
(* the transition-start hook (configure) and the transition resolver       *)
(* (UrlTypeFactoryService.doTransition) with its promise chain.            *)
(***************************************************************************)
EXTENDS Integers, Sequences, FiniteSets, TLC

VARIABLES
    registeredTypes,   \* UrlTypeFactoryService._registeredTypes
    bindableTypes,     \* UrlTypeFactoryService._bindableTypes
    urlTypes,          \* codecs installed by router.urlService.config.type
    hookInstalled,     \* configure() reached transitionService.onStart
    lastOp,            \* the last call made on the service or on a codec
    nCalls,            \* number of such calls so far
    resolveCount,      \* number of calls of any descriptor's resolve
    trans,             \* the transitions started through the router
    jobs               \* the promise job (microtask) queue

vars == <<registeredTypes, bindableTypes, urlTypes, hookInstalled, lastOp,
          nCalls, resolveCount, trans, jobs>>

registryVars == <<registeredTypes, bindableTypes, urlTypes>>
navVars == <<hookInstalled, trans, jobs>>

(***************************************************************************)
(* Bounds.                                                                 *)
(***************************************************************************)
MaxCalls == 3          \* calls made on the service and the codecs
MaxTypes == 2          \* length of configuration.types
MaxTransitions == 1    \* transitions started through the router

(***************************************************************************)
(* JavaScript values.  Every value is a record tagged by t; an object is   *)
(* its map of own properties.                                              *)
(***************************************************************************)
REPR_TOKEN == "__ngx_ui_router_url_type__repr"
RSLV_TOKEN == "__ngx_ui_router_url_type__rslv"

Undef == [t |-> "undefined"]
Null == [t |-> "null"]
Str(s) == [t |-> "str", s |-> s]
Num(n) == [t |-> "num", n |-> n]
Bool(b) == [t |-> "bool", b |-> b]
Obj(f) == [t |-> "obj", f |-> f]
Fn(k, type, arg) == [t |-> "fn", k |-> k, type |-> type, arg |-> arg]
PromiseRef(tr, ix) == [t |-> "promise", tr |-> tr, ix |-> ix]

IsObject(v) == v.t \in {"obj", "promise"}          \* typeof v === 'object' && v !== null
IsNullish(v) == v.t \in {"undefined", "null"}
Truthy(v) ==
    CASE v.t = "undefined" -> FALSE
      [] v.t = "null" -> FALSE
      [] v.t = "bool" -> v.b
      [] v.t = "num" -> v.n # 0
      [] v.t = "str" -> v.s # ""
      [] OTHER -> TRUE

HasOwn(v, k) == v.t = "obj" /\ k \in DOMAIN v.f
\* v[k] for a value that is not null or undefined
Get(v, k) ==
    IF v.t = "promise" /\ k = "then" THEN Fn("then", Undef, Undef)
    ELSE IF HasOwn(v, k) THEN v.f[k] ELSE Undef

NumStr(n) ==
    CASE n = 0 -> "0" [] n = 1 -> "1" [] n = 2 -> "2" [] n = 7 -> "7"
      [] n = 404 -> "404"
      [] OTHER -> "NaN"
\* String(v), also the conversion made by a template literal
String(v) ==
    CASE v.t = "str" -> v.s
      [] v.t = "num" -> NumStr(v.n)
      [] v.t = "bool" -> IF v.b THEN "true" ELSE "false"
      [] v.t = "undefined" -> "undefined"
      [] v.t = "null" -> "null"
      [] v.t = "obj" -> "[object Object]"
      [] v.t = "promise" -> "[object Promise]"
      [] OTHER -> "function"
ToUpperCase(s) ==
    CASE s = "undefined" -> "UNDEFINED"
      [] s = "a" -> "A"
      [] s = "null" -> "NULL"
      [] OTHER -> s

(***************************************************************************)
(* Type descriptors (UrlType<T>).  represent is the one of the test types, *)
(* String(obj.pk); what resolve returns is chosen by the environment when  *)
(* resolve is called.                                                      *)
(***************************************************************************)
TypeNames == {"SyncTest", "AsyncTest"}
Descriptors == [name : TypeNames, match : {"\\d+"}, bindable : BOOLEAN]
NoType == [name |-> "", match |-> "", bindable |-> FALSE]

represent(type, obj) == String(Get(obj, "pk"))

\* a domain object, as the test types' resolve returns and the tests pass in
DomainObj(pk, attr1) == Obj(("pk" :> pk) @@ ("attr1" :> attr1))
Resolved(type, matched) == DomainObj(matched, Str(type.name))

\* a call of a descriptor's function
Call(fn, type, arg) == [fn |-> fn, type |-> type.name, arg |-> arg]
\* what a codec function or a closure did: returned ret or threw, after calls
Ret(v, calls) == [ret |-> v, threw |-> "", calls |-> calls]
Threw(e, calls) == [ret |-> Undef, threw |-> e, calls |-> calls]

(***************************************************************************)
(* The codec registerType installs for a descriptor.                       *)
(***************************************************************************)
encode(type, obj) ==
    IF IsNullish(obj) THEN Threw("TypeError", <<>>)
    ELSE IF Truthy(Get(obj, REPR_TOKEN))
         THEN Ret(Get(obj, REPR_TOKEN), <<>>)
         ELSE Ret(Str(represent(type, obj)), <<Call("represent", type, obj)>>)

\* a decode that resolves at once instead of deferring to the closure
decodeEager(type, repr) ==
    IF Truthy(repr) /\ IsObject(repr)
    THEN Ret(Obj((REPR_TOKEN :> Str(represent(type, repr)))
                 @@ (RSLV_TOKEN :> Fn("return", NoType, repr))),
             <<Call("represent", type, repr)>>)
    ELSE Ret(Obj((REPR_TOKEN :> repr)
                 @@ (RSLV_TOKEN :> Fn("return", NoType, Resolved(type, repr)))),
             <<Call("resolve", type, repr)>>)

\* a decode whose closure calls resolve whatever it was given
decodeAlwaysResolves(type, repr) ==
    IF Truthy(repr) /\ IsObject(repr)
    THEN Ret(Obj((REPR_TOKEN :> Str(represent(type, repr)))
                 @@ (RSLV_TOKEN :> Fn("resolve", type, Str(represent(type, repr))))),
             <<Call("represent", type, repr)>>)
    ELSE Ret(Obj((REPR_TOKEN :> repr)
                 @@ (RSLV_TOKEN :> Fn("resolve", type, repr))),
             <<>>)

\* a decode that marks an object with the object itself, not with represent
decodeMarksRaw(type, repr) ==
    IF Truthy(repr) /\ IsObject(repr)
    THEN Ret(Obj((REPR_TOKEN :> repr)
                 @@ (RSLV_TOKEN :> Fn("return", NoType, repr))),
             <<>>)
    ELSE Ret(Obj((REPR_TOKEN :> repr)
                 @@ (RSLV_TOKEN :> Fn("resolve", type, repr))),
             <<>>)

decode(type, repr) ==
    IF Truthy(repr) /\ IsObject(repr)
    THEN Ret(Obj((REPR_TOKEN :> Str(represent(type, repr)))
                 @@ (RSLV_TOKEN :> Fn("return", NoType, repr))),
             <<Call("represent", type, repr)>>)
    ELSE Ret(Obj((REPR_TOKEN :> repr)
                 @@ (RSLV_TOKEN :> Fn("resolve", type, repr))),
             <<>>)

\* an is that looks for the representation marker only
isByRepresentation(type, obj) ==
    Ret(Bool(Truthy(obj) /\ IsObject(obj) /\ HasOwn(obj, REPR_TOKEN)), <<>>)

is(type, obj) ==
    Ret(Bool(Truthy(obj) /\ IsObject(obj)
             /\ HasOwn(obj, REPR_TOKEN) /\ HasOwn(obj, RSLV_TOKEN)), <<>>)

\* an equals whose represent comparison is case-sensitive
equalsCaseSensitive(type, a, b) ==
    IF /\ Truthy(a) /\ Truthy(b) /\ IsObject(a) /\ IsObject(b)
       /\ HasOwn(a, REPR_TOKEN) /\ HasOwn(b, REPR_TOKEN)
    THEN Ret(Bool(Get(a, REPR_TOKEN) = Get(b, REPR_TOKEN)), <<>>)
    ELSE IF Truthy(a) /\ Truthy(b) /\ IsObject(a) /\ IsObject(b)
    THEN Ret(Bool(represent(type, a) = represent(type, b)),
             <<Call("represent", type, a), Call("represent", type, b)>>)
    ELSE Ret(Bool(a = b), <<>>)

equals(type, a, b) ==
    IF /\ Truthy(a) /\ Truthy(b) /\ IsObject(a) /\ IsObject(b)
       /\ HasOwn(a, REPR_TOKEN) /\ HasOwn(b, REPR_TOKEN)
    THEN Ret(Bool(Get(a, REPR_TOKEN) = Get(b, REPR_TOKEN)), <<>>)
    ELSE IF Truthy(a) /\ Truthy(b) /\ IsObject(a) /\ IsObject(b)
    THEN Ret(Bool(ToUpperCase(represent(type, a)) = ToUpperCase(represent(type, b))),
             <<Call("represent", type, a), Call("represent", type, b)>>)
    ELSE Ret(Bool(a = b), <<>>)

(***************************************************************************)
(* The registry.                                                           *)
(***************************************************************************)
RECURSIVE FirstNamed(_, _, _)
\* the for-loop of getTypeByName over types from index i on
FirstNamed(types, name, i) ==
    IF i > Len(types) THEN NoType
    ELSE IF types[i].name = name THEN types[i]
    ELSE FirstNamed(types, name, i + 1)

getTypeByName(name, bindableOnly) ==
    FirstNamed(IF bindableOnly THEN bindableTypes ELSE registeredTypes, name, 1)

\* registerType without its duplicate-name loop
registerTypeUnchecked(type, reg) ==
    [registered |-> Append(reg.registered, type),
     bindable |-> IF type.bindable THEN Append(reg.bindable, type)
                   ELSE reg.bindable,
     url |-> Append(reg.url, type),
     error |-> ""]

\* a registerType that files a bindable type before it looks for its name
registerTypeBindableFirst(type, reg) ==
    LET bindable == IF type.bindable THEN Append(reg.bindable, type) ELSE reg.bindable
    IN IF \E i \in 1..Len(reg.registered) : type.name = reg.registered[i].name
       THEN [reg EXCEPT !.bindable = bindable, !.error = "RegistrationError"]
       ELSE [registered |-> Append(reg.registered, type),
             bindable |-> bindable,
             url |-> Append(reg.url, type),
             error |-> ""]

\* registerType on the registry reg: the registry and the router's types after
\* the call, and the error it threw
registerType(type, reg) ==
    IF \E i \in 1..Len(reg.registered) : type.name = reg.registered[i].name
    THEN [reg EXCEPT !.error = "RegistrationError"]
    ELSE [registered |-> Append(reg.registered, type),
          bindable |-> IF type.bindable THEN Append(reg.bindable, type)
                        ELSE reg.bindable,
          url |-> Append(reg.url, type),
          error |-> ""]

Registry == [registered |-> registeredTypes, bindable |-> bindableTypes,
             url |-> urlTypes, error |-> ""]

NoOp == [op |-> "", type |-> NoType, args |-> <<>>, ret |-> Undef,
         threw |-> "", calls |-> <<>>]

(***************************************************************************)
(* State declarations of the router (StateObject.path, Param.id, Param.type)*)
(* The states of the test routing configuration, a state without typed     *)
(* parameters, and parent/child states, where the path has two nodes.      *)
(***************************************************************************)
Param(id, typeName) == [id |-> id, type |-> typeName]
PathState(params) == [params |-> params]
StateDecls ==
    { <<PathState(<<>>), PathState(<<Param("param1", "string")>>)>>,
      <<PathState(<<>>), PathState(<<Param("param1", "SyncTest")>>)>>,
      <<PathState(<<>>), PathState(<<Param("param1", "SyncTest"),
                                     Param("param2", "AsyncTest")>>)>>,
      <<PathState(<<Param("param1", "AsyncTest")>>),
        PathState(<<Param("param2", "string")>>)>>,
      <<PathState(<<Param("param1", "SyncTest")>>),
        PathState(<<Param("param1", "SyncTest")>>)>>,
      <<PathState(<<Param("param1", "string")>>),
        PathState(<<Param("param1", "AsyncTest")>>)>> }

RECURSIVE TypedParamsOf(_, _, _)
\* the inner loop of getTypeParamsFromStateObject over params from index i on
TypedParamsOf(params, bindableOnly, i) ==
    IF i > Len(params) THEN <<>>
    ELSE (IF getTypeByName(params[i].type, bindableOnly) # NoType
          THEN <<params[i]>> ELSE <<>>)
         \o TypedParamsOf(params, bindableOnly, i + 1)

RECURSIVE TypedParamsFrom(_, _, _)
\* the outer loop of getTypeParamsFromStateObject over state.path from index i on
TypedParamsFrom(path, bindableOnly, i) ==
    IF i > Len(path) THEN <<>>
    ELSE TypedParamsOf(path[i].params, bindableOnly, 1)
         \o TypedParamsFrom(path, bindableOnly, i + 1)

\* a search of the parameters the state itself declares, not of its path
getTypeParamsOfOwnState(state, bindableOnly) ==
    TypedParamsOf(state[Len(state)].params, bindableOnly, 1)

getTypeParamsFromStateObject(state, bindableOnly) ==
    TypedParamsFrom(state, bindableOnly, 1)

getTypeIdsFromStateObject(state, bindableOnly) ==
    LET ps == getTypeParamsFromStateObject(state, bindableOnly)
    IN [i \in 1..Len(ps) |-> ps[i].id]

(***************************************************************************)
(* Values handed to the codecs: primitives, domain objects, and what the   *)
(* installed decode functions make of them.                                *)
(***************************************************************************)
Primitives == {Str("7"), Str(""), Num(0), Null}
DomainObjects ==
    {DomainObj(Num(1), Str("x")), DomainObj(Str("a"), Str("x")),
     DomainObj(Str("A"), Str("x"))}
\* objects that carry one of the two markers only
HalfMarkedObjects ==
    {Obj(REPR_TOKEN :> Str("7")), Obj(RSLV_TOKEN :> Fn("return", NoType, Str("7")))}
RangeOf(seq) == {seq[i] : i \in 1..Len(seq)}
DecodedValues ==
    {decode(type, v).ret : type \in RangeOf(urlTypes), v \in Primitives \cup DomainObjects}
CodecValues == Primitives \cup DomainObjects \cup HalfMarkedObjects \cup DecodedValues

ResolveCallsIn(calls) == Cardinality({i \in 1..Len(calls) : calls[i].fn = "resolve"})

Init ==
    /\ registeredTypes = <<>>
    /\ bindableTypes = <<>>
    /\ urlTypes = <<>>
    /\ hookInstalled = FALSE
    /\ lastOp = NoOp
    /\ nCalls = 0
    /\ resolveCount = 0
    /\ trans = <<>>
    /\ jobs = <<>>

\* service.registerType(type, router, injector)
RegisterType(type) ==
    /\ nCalls < MaxCalls
    /\ LET r == registerType(type, Registry) IN
        /\ registeredTypes' = r.registered
        /\ bindableTypes' = r.bindable
        /\ urlTypes' = r.url
        /\ lastOp' = [NoOp EXCEPT !.op = "registerType", !.type = type,
                                  !.threw = r.error]
    /\ nCalls' = nCalls + 1
    /\ UNCHANGED <<resolveCount, navVars>>

\* a call of one function of an installed codec
CodecCall(op, type, args, r) ==
    /\ nCalls < MaxCalls
    /\ lastOp' = [op |-> op, type |-> type, args |-> args, ret |-> r.ret,
                  threw |-> r.threw, calls |-> r.calls]
    /\ nCalls' = nCalls + 1
    /\ resolveCount' = resolveCount + ResolveCallsIn(r.calls)
    /\ UNCHANGED <<registryVars, navVars>>

Encode(type, obj) == CodecCall("encode", type, <<obj>>, encode(type, obj))
Decode(type, repr) == CodecCall("decode", type, <<repr>>, decode(type, repr))
Is(type, obj) == CodecCall("is", type, <<obj>>, is(type, obj))
Equals(type, a, b) == CodecCall("equals", type, <<a, b>>, equals(type, a, b))

\* service.getTypeParamsFromStateObject(state, bindableOnly)
GetTypeParamsFromStateObject(state, bindableOnly) ==
    CodecCall("getTypeParamsFromStateObject", NoType,
              <<[state |-> state, bindableOnly |-> bindableOnly]>>,
              Ret(getTypeParamsFromStateObject(state, bindableOnly), <<>>))

\* service.getTypeByName(name, bindableOnly)
GetTypeByName(name, bindableOnly) ==
    CodecCall("getTypeByName", NoType,
              <<[name |-> name, bindableOnly |-> bindableOnly]>>,
              Ret(getTypeByName(name, bindableOnly), <<>>))

ApiNext ==
    \/ \E type \in Descriptors : RegisterType(type)
    \/ \E name \in TypeNames \cup {"string"}, bindableOnly \in BOOLEAN :
         GetTypeByName(name, bindableOnly)
    \/ \E state \in StateDecls, bindableOnly \in BOOLEAN :
         GetTypeParamsFromStateObject(state, bindableOnly)
    \/ \E type \in RangeOf(urlTypes), obj \in CodecValues : Encode(type, obj)
    \/ \E type \in RangeOf(urlTypes), repr \in CodecValues : Decode(type, repr)
    \/ \E type \in RangeOf(urlTypes), obj \in CodecValues : Is(type, obj)
    \/ \E type \in RangeOf(urlTypes), a, b \in CodecValues : Equals(type, a, b)

ApiSpec == Init /\ [][ApiNext]_vars
(***************************************************************************)
(* Transitions.  A transition holds the 'to' path of its tree changes      *)
(* (PathNode.paramValues per node), the resolvables added to it, and the   *)
(* promises doTransition made: per typed parameter id the awaitable of the *)
(* resolution (p0), p0.then(...) (p1) and p1.catch(...) (p2), and the      *)
(* Promise.all over the p2 (promise); settled lists the typed parameters   *)
(* in the order in which their awaitables settled.                         *)
(***************************************************************************)
Pending == [st |-> "pending", v |-> Undef]
Fulfilled(v) == [st |-> "fulfilled", v |-> v]
Rejected(e) == [st |-> "rejected", v |-> e]
NoPromise == [st |-> "none", v |-> Undef]

Error(class, param, text) ==
    [t |-> "error", class |-> class, message |-> [param |-> param, error |-> text]]
\* an error whose message leaves out what was rejected with
ResolveErrorWithoutCause(targetParamId, error) ==
    Error("UrlTypeFactoryResolveError", targetParamId, "")
\* new UrlTypeFactoryResolveError(`The URL parameter '${targetParamId}' rejected.
\* The error was: ${error}.`)
UrlTypeFactoryResolveError(targetParamId, error) ==
    Error("UrlTypeFactoryResolveError", targetParamId, String(error))

GoInputs == {Str("7"), DomainObj(Num(1), Str("x"))}
RejectCauses == {Str("404"), Num(404)}
\* what a resolve call does: returns a domain object, a falsy value, a promise,
\* an object with a $promise that is a promise or one that is not, or throws
ResolveKinds == {"value", "falsy", "promise", "$promise", "$value", "throws"}

InstalledType(typeName) == FirstNamed(urlTypes, typeName, 1)
\* the router normalises a supplied parameter value through the codec of the
\* parameter's type: is(value) ? value : decode(value)
Normalize(typeName, value) ==
    LET type == InstalledType(typeName) IN
    IF type = NoType THEN value
    ELSE IF is(type, value).ret.b THEN value ELSE decode(type, value).ret

\* the 'to' path of a transition to state with the supplied parameter values
BuildTree(state, raw) ==
    [n \in 1..Len(state) |->
        [paramValues |->
            [k \in 1..Len(state[n].params) |->
                [id |-> state[n].params[k].id,
                 v |-> Normalize(state[n].params[k].type,
                                 raw[state[n].params[k].id])]]]]

HasParam(node, id) == \E k \in 1..Len(node.paramValues) : node.paramValues[k].id = id
ParamOf(node, id) ==
    node.paramValues[CHOOSE k \in 1..Len(node.paramValues) : node.paramValues[k].id = id].v
\* transition.params('to')[id]: the nodes' paramValues merged, later nodes last
ParamsTo(tree, id) ==
    LET holders == {n \in 1..Len(tree) : HasParam(tree[n], id)} IN
    IF holders = {} THEN Undef
    ELSE ParamOf(tree[CHOOSE n \in holders : \A m \in holders : m <= n], id)

IdsOfState(state) ==
    UNION {{state[n].params[k].id : k \in 1..Len(state[n].params)} : n \in 1..Len(state)}

\* UrlType.resolve(matched, injector); ref is the promise it makes, if any
resolve(type, matched, kind, ref) ==
    LET calls == <<Call("resolve", type, matched)>> IN
    CASE kind = "value" -> Ret(Resolved(type, matched), calls)
      [] kind = "falsy" -> Ret(Num(0), calls)
      [] kind = "promise" -> Ret(ref, calls)
      [] kind = "$promise" -> Ret(Obj("$promise" :> ref), calls)
      [] kind = "$value" -> Ret(Obj("$promise" :> Num(1)), calls)
      [] OTHER -> Threw("Error", calls)

\* targetParamValue[RSLV_TOKEN]()
InvokeResolver(targetParamValue, kind, ref) ==
    IF IsNullish(targetParamValue) THEN Threw("TypeError", <<>>)
    ELSE LET rslv == Get(targetParamValue, RSLV_TOKEN) IN
         IF rslv.t # "fn" THEN Threw("TypeError", <<>>)
         ELSE IF rslv.k = "return" THEN Ret(rslv.arg, <<>>)
         ELSE resolve(rslv.type, rslv.arg, kind, ref)

\* a normalisation that does not look at the result's $promise
TargetParamPromiseOfResult(targetParamResolved) ==
    IF targetParamResolved.t = "promise" THEN Pending
    ELSE Fulfilled(targetParamResolved)

\* the state of the promise doTransition chains on for a resolver's result:
\* result.$promise if that is a promise, else Promise.resolve(result)
TargetParamPromise(targetParamResolved) ==
    LET p == IF Truthy(targetParamResolved)
             THEN Get(targetParamResolved, "$promise") ELSE targetParamResolved
    IN IF ~Truthy(p) \/ ~Truthy(Get(p, "then")) \/ Get(p, "then").t # "fn"
       THEN (IF targetParamResolved.t = "promise" THEN Pending
             ELSE Fulfilled(targetParamResolved))
       ELSE Pending

Job(tr, ix, kind) == [tr |-> tr, ix |-> ix, kind |-> kind]

NewTransition(state, raw) ==
    [state |-> state, raw |-> raw, tree |-> BuildTree(state, raw),
     ran |-> FALSE, threw |-> "", promise |-> NoPromise, remaining |-> 0,
     slots |-> <<>>, resolvables |-> <<>>, resolveCalls |-> <<>>,
     settled |-> <<>>]

RECURSIVE TargetParamLoop(_, _, _, _, _, _)
\* the loop of doTransition over targetParamIds from index i on; acc holds the
\* transition and the job queue so far
TargetParamLoop(acc, targetParamIds, targetParamBindableIds, tid, kinds, i) ==
    IF i > Len(targetParamIds) THEN acc
    ELSE
    LET targetParamId == targetParamIds[i]
        targetParamValue == ParamsTo(acc.tr.tree, targetParamId)
        r == InvokeResolver(targetParamValue, kinds[i], PromiseRef(tid, i))
        called == IF ResolveCallsIn(r.calls) > 0 THEN <<targetParamId>> ELSE <<>>
    IN
    IF r.threw # ""
    THEN [acc EXCEPT !.tr.threw = r.threw, !.tr.resolveCalls = @ \o called]
    ELSE
    LET p0 == TargetParamPromise(r.ret)
        slot == [id |-> targetParamId, value |-> targetParamValue,
                 kind |-> IF called = <<>> THEN "return" ELSE kinds[i],
                 p0 |-> p0, p1 |-> Pending, p2 |-> Pending]
    IN TargetParamLoop(
         [tr |-> [acc.tr EXCEPT
                    !.slots = Append(@, slot),
                    !.resolveCalls = @ \o called,
                    !.resolvables =
                        IF \E k \in 1..Len(targetParamBindableIds) :
                               targetParamBindableIds[k] = targetParamId
                        THEN Append(@, targetParamId) ELSE @],
          jobs |-> IF p0.st = "pending" THEN acc.jobs
                   ELSE Append(acc.jobs, Job(tid, i, "then"))],
         targetParamIds, targetParamBindableIds, tid, kinds, i + 1)

TargetParamIds(state) == getTypeIdsFromStateObject(state, FALSE)
\* targetParamBindableIds computed from the full registered set
TargetParamBindableIdsOfAll(state) == getTypeIdsFromStateObject(state, FALSE)
TargetParamBindableIds(state) == getTypeIdsFromStateObject(state, TRUE)

\* doTransition(transition) for the transition numbered tid
doTransition(tr, tid, kinds, queue) ==
    LET targetParamIds == TargetParamIds(tr.state)
        targetParamBindableIds == TargetParamBindableIds(tr.state)
        r == TargetParamLoop([tr |-> tr, jobs |-> queue], targetParamIds,
                             targetParamBindableIds, tid, kinds, 1)
    IN IF r.tr.threw # "" THEN r
       ELSE [r EXCEPT !.tr.remaining = Len(targetParamIds),
                      !.tr.promise = IF Len(targetParamIds) = 0
                                     THEN Fulfilled(Undef) ELSE Pending]

RECURSIVE RegisterAll(_, _, _)
\* the loop of configure over configuration.types from index i on
RegisterAll(types, reg, i) ==
    IF i > Len(types) \/ reg.error # "" THEN reg
    ELSE RegisterAll(types, registerType(types[i], reg), i + 1)

\* the types a module configuration lists
ConfigTypes ==
    {[name |-> "SyncTest", match |-> "\\d+", bindable |-> TRUE],
     [name |-> "AsyncTest", match |-> "\\d+", bindable |-> FALSE]}
Configurations == UNION {[1..n -> ConfigTypes] : n \in 0..MaxTypes}

\* configure(router, injector), run once when the router starts
Configure(types) ==
    /\ lastOp.op = ""
    /\ LET r == RegisterAll(types, Registry, 1) IN
        /\ registeredTypes' = r.registered
        /\ bindableTypes' = r.bindable
        /\ urlTypes' = r.url
        /\ hookInstalled' = (r.error = "")
        /\ lastOp' = [NoOp EXCEPT !.op = "configure", !.threw = r.error]
    /\ UNCHANGED <<nCalls, resolveCount, trans, jobs>>

\* the criterion computed from the bindable subset
HookMatchesBindableOnly(state) == Len(getTypeParamsFromStateObject(state, TRUE)) # 0
\* the onStart hook's criterion: to: (state) => ...length !== 0
HookMatches(state) == Len(getTypeParamsFromStateObject(state, FALSE)) # 0

\* a transition to state starts: the onStart hook runs doTransition for it if
\* its criterion matches
StartTransition(state, raw, kinds) ==
    /\ hookInstalled
    /\ LET tid == Len(trans) + 1
           tr == NewTransition(state, raw)
       IN IF HookMatches(state)
          THEN LET r == doTransition([tr EXCEPT !.ran = TRUE], tid, kinds, jobs) IN
               /\ trans' = Append(trans, r.tr)
               /\ jobs' = r.jobs
               /\ resolveCount' = resolveCount + Len(r.tr.resolveCalls)
          ELSE /\ trans' = Append(trans, tr)
               /\ UNCHANGED <<jobs, resolveCount>>
    /\ UNCHANGED <<registryVars, hookInstalled, lastOp, nCalls>>

\* router.stateService.go(state, raw)
Go(state, raw, kinds) ==
    /\ Len(trans) < MaxTransitions
    /\ StartTransition(state, raw, kinds)

\* the promise a resolve call returned settles
Settle(tid, ix, outcome) ==
    /\ trans[tid].slots[ix].p0.st = "pending"
    /\ trans' = [trans EXCEPT ![tid].slots[ix].p0 = outcome,
                              ![tid].settled = Append(@, ix)]
    /\ jobs' = Append(jobs, Job(tid, ix, "then"))
    /\ UNCHANGED <<registryVars, hookInstalled, lastOp, nCalls, resolveCount>>

\* the value the promise of a resolve call is fulfilled with
FulfilValue(slot) ==
    LET rslv == Get(slot.value, RSLV_TOKEN) IN Resolved(rslv.type, rslv.arg)

\* a write-back that stops at the first node holding the id
WriteBackFirstNode(tree, targetParamId, resolved) ==
    [n \in 1..Len(tree) |->
        [paramValues |->
            [k \in 1..Len(tree[n].paramValues) |->
                IF /\ tree[n].paramValues[k].id = targetParamId
                   /\ \A m \in 1..(n - 1) : ~HasParam(tree[m], targetParamId)
                THEN [id |-> targetParamId, v |-> resolved]
                ELSE tree[n].paramValues[k]]]]

\* the loop of the .then callback over transition.treeChanges()['to']
WriteBack(tree, targetParamId, resolved) ==
    [n \in 1..Len(tree) |->
        [paramValues |->
            [k \in 1..Len(tree[n].paramValues) |->
                IF tree[n].paramValues[k].id = targetParamId
                THEN [id |-> targetParamId, v |-> resolved]
                ELSE tree[n].paramValues[k]]]]

\* a .then callback that writes into the nodes of every transition
ThenJobOnAllTrees ==
    /\ jobs # <<>> /\ Head(jobs).kind = "then"
    /\ LET tid == Head(jobs).tr
           ix == Head(jobs).ix
           slot == trans[tid].slots[ix]
       IN /\ trans' = IF slot.p0.st = "fulfilled"
                      THEN [t \in 1..Len(trans) |->
                              IF t = tid
                              THEN [trans[t] EXCEPT
                                      !.tree = WriteBack(@, slot.id, slot.p0.v),
                                      !.slots[ix].p1 = Fulfilled(slot.p0.v)]
                              ELSE [trans[t] EXCEPT
                                      !.tree = WriteBack(@, slot.id, slot.p0.v)]]
                      ELSE [trans EXCEPT ![tid].slots[ix].p1 = slot.p0]
          /\ jobs' = Append(Tail(jobs), Job(tid, ix, "catch"))
    /\ UNCHANGED <<registryVars, hookInstalled, lastOp, nCalls, resolveCount>>

\* the reaction of targetParamPromise.then((resolved) => ...)
ThenJob ==
    /\ jobs # <<>> /\ Head(jobs).kind = "then"
    /\ LET tid == Head(jobs).tr
           ix == Head(jobs).ix
           slot == trans[tid].slots[ix]
       IN /\ trans' = IF slot.p0.st = "fulfilled"
                      THEN [trans EXCEPT
                              ![tid].tree = WriteBack(@, slot.id, slot.p0.v),
                              ![tid].slots[ix].p1 = Fulfilled(slot.p0.v)]
                      ELSE [trans EXCEPT ![tid].slots[ix].p1 = slot.p0]
          /\ jobs' = Append(Tail(jobs), Job(tid, ix, "catch"))
    /\ UNCHANGED <<registryVars, hookInstalled, lastOp, nCalls, resolveCount>>

\* the reaction of .catch((error) => { throw new UrlTypeFactoryResolveError })
CatchJob ==
    /\ jobs # <<>> /\ Head(jobs).kind = "catch"
    /\ LET tid == Head(jobs).tr
           ix == Head(jobs).ix
           slot == trans[tid].slots[ix]
       IN /\ trans' = IF slot.p1.st = "fulfilled"
                      THEN [trans EXCEPT ![tid].slots[ix].p2 = slot.p1]
                      ELSE [trans EXCEPT ![tid].slots[ix].p2 =
                              Rejected(UrlTypeFactoryResolveError(slot.id, slot.p1.v))]
          /\ jobs' = Append(Tail(jobs), Job(tid, ix, "all"))
    /\ UNCHANGED <<registryVars, hookInstalled, lastOp, nCalls, resolveCount>>

\* a join that settles with the first of its promises to settle
PromiseRace(tr, p2) ==
    [tr EXCEPT !.remaining = IF p2.st = "fulfilled" THEN @ - 1 ELSE @,
               !.promise = IF @.st # "pending" THEN @
                           ELSE IF p2.st = "fulfilled" THEN Fulfilled(Undef) ELSE p2]

\* a join that rejects with the last rejection it sees
PromiseAllLastRejection(tr, p2) ==
    IF p2.st = "fulfilled"
    THEN [tr EXCEPT !.remaining = @ - 1,
                    !.promise = IF tr.remaining = 1 /\ @.st = "pending"
                                THEN Fulfilled(Undef) ELSE @]
    ELSE [tr EXCEPT !.promise = p2]

\* a join that waits for fulfilments only and never rejects
PromiseAllIgnoresRejection(tr, p2) ==
    IF p2.st = "fulfilled"
    THEN [tr EXCEPT !.remaining = @ - 1,
                    !.promise = IF tr.remaining = 1 /\ @.st = "pending"
                                THEN Fulfilled(Undef) ELSE @]
    ELSE tr

\* Promise.all(targetPromises) when its element p2 has settled: fulfilled when
\* every element is, rejected with the first rejection
PromiseAll(tr, p2) ==
    IF p2.st = "fulfilled"
    THEN [tr EXCEPT !.remaining = @ - 1,
                    !.promise = IF tr.remaining = 1 /\ @.st = "pending"
                                THEN Fulfilled(Undef) ELSE @]
    ELSE [tr EXCEPT !.promise = IF @.st = "pending" THEN p2 ELSE @]

\* the reaction of Promise.all(targetPromises) to one of its promises
AllJob ==
    /\ jobs # <<>> /\ Head(jobs).kind = "all"
    /\ LET tid == Head(jobs).tr
           ix == Head(jobs).ix
       IN trans' = [trans EXCEPT ![tid] = PromiseAll(@, @.slots[ix].p2)]
    /\ jobs' = Tail(jobs)
    /\ UNCHANGED <<registryVars, hookInstalled, lastOp, nCalls, resolveCount>>

Next ==
    \/ \E types \in Configurations : Configure(types)
    \/ \E state \in StateDecls :
         \E raw \in [IdsOfState(state) -> GoInputs] :
           \E kinds \in [1..Len(getTypeIdsFromStateObject(state, FALSE)) -> ResolveKinds] :
             Go(state, raw, kinds)
    \/ \E tid \in 1..Len(trans) :
         \E ix \in 1..Len(trans[tid].slots) :
           \E outcome \in {Fulfilled(FulfilValue(trans[tid].slots[ix]))}
                          \cup {Rejected(e) : e \in RejectCauses} :
             Settle(tid, ix, outcome)
    \/ ThenJob
    \/ CatchJob
    \/ AllJob

Spec == Init /\ [][Next]_vars

\* the promise reactions are jobs of the microtask queue, which the engine runs
\* until the queue is empty; whether a resolve promise settles is up to the
\* application
LiveSpec ==
    Spec /\ WF_vars(ThenJob) /\ WF_vars(CatchJob) /\ WF_vars(AllJob)

(***************************************************************************)
(* Transitions that overlap: a second transition starts while the          *)
(* resolutions of the first are pending.                                   *)
(***************************************************************************)
MaxPending == 2        \* transitions started while earlier ones are pending
PendingTypes ==
    <<[name |-> "SyncTest", match |-> "\\d+", bindable |-> TRUE],
      [name |-> "AsyncTest", match |-> "\\d+", bindable |-> FALSE]>>
PendingStates ==
    { <<PathState(<<>>), PathState(<<Param("param1", "SyncTest"),
                                     Param("param2", "AsyncTest")>>)>>,
      <<PathState(<<Param("param1", "AsyncTest")>>),
        PathState(<<Param("param2", "string")>>)>> }
PendingKinds == {"value", "promise"}

\* router.stateService.go(state, raw) while earlier transitions may be pending
GoWhilePending(state, raw, kinds) ==
    /\ Len(trans) < MaxPending
    /\ StartTransition(state, raw, kinds)

PendingNext ==
    \/ Configure(PendingTypes)
    \/ \E state \in PendingStates :
         \E kinds \in [1..Len(getTypeIdsFromStateObject(state, FALSE)) -> PendingKinds] :
           GoWhilePending(state, [id \in IdsOfState(state) |-> Str("7")], kinds)
    \/ \E tid \in 1..Len(trans) :
         \E ix \in 1..Len(trans[tid].slots) :
           \E outcome \in {Fulfilled(FulfilValue(trans[tid].slots[ix])),
                           Rejected(Str("404"))} :
             Settle(tid, ix, outcome)
    \/ ThenJob
    \/ CatchJob
    \/ AllJob

PendingSpec == Init /\ [][PendingNext]_vars
(***************************************************************************)
(* URL construction.  router.stateService.href(state, params) is the host  *)
(* router's: it hands each supplied value to the codec of the parameter's  *)
(* type (is, decode, encode), tests the encoded value against the type's   *)
(* pattern and joins the static segments of the state's url with the       *)
(* encoded values.  The location prefix ('#') is left out.                 *)
(***************************************************************************)
\* RegExp.exec on the strings of the model, for the patterns of the types
Matches(match, str) ==
    CASE match = "\\d+" -> str \in {"0", "1", "2", "7", "404", "a-1", "b-1"}
      [] match = "a-\\d+" -> str = "a-1"
      [] match = "\\w+" -> str # ""
      [] OTHER -> FALSE

\* the types of the test module and a type whose pattern is any word
HrefTypes ==
    <<[name |-> "SyncTest", match |-> "\\d+", bindable |-> TRUE],
      [name |-> "AsyncTest", match |-> "\\d+", bindable |-> TRUE],
      [name |-> "MatchTest", match |-> "a-\\d+", bindable |-> TRUE],
      [name |-> "WordTest", match |-> "\\w+", bindable |-> TRUE]>>

Static(text) == [static |-> text, id |-> "", type |-> ""]
Segment(id, typeName) == [static |-> "", id |-> id, type |-> typeName]
\* the url of a state: static segments and typed parameters
UrlDecls ==
    { <<Static("/sync/"), Segment("param1", "SyncTest")>>,
      <<Static("/sync-async/"), Segment("param1", "SyncTest"),
        Static("/"), Segment("param2", "AsyncTest")>>,
      <<Static("/match/"), Segment("param1", "MatchTest")>>,
      <<Static("/word/"), Segment("param1", "WordTest")>> }
IdsOfUrl(url) == {url[i].id : i \in {j \in 1..Len(url) : url[j].static = ""}}
HrefInputs ==
    {Num(1), Num(0), Str("a-1"), Str("b-1"), DomainObj(Num(2), Str("x"))}

\* what the codec makes of the value supplied for one parameter
EncodeParam(typeName, value) ==
    LET type == InstalledType(typeName)
        dec == IF is(type, value).ret.b THEN Ret(value, <<>>) ELSE decode(type, value)
        enc == encode(type, dec.ret)
    IN [enc EXCEPT !.calls = dec.calls \o @]

RECURSIVE Format(_, _, _)
\* the url from its segment i on: text, validity and the descriptor calls made
Format(url, params, i) ==
    IF i > Len(url) THEN [text |-> "", valid |-> TRUE, calls |-> <<>>]
    ELSE LET rest == Format(url, params, i + 1) IN
         IF url[i].static # ""
         THEN [rest EXCEPT !.text = url[i].static \o @]
         ELSE LET enc == EncodeParam(url[i].type, params[url[i].id])
                  text == String(enc.ret)
              IN [text |-> text \o rest.text,
                  valid |-> /\ rest.valid
                            /\ Matches(InstalledType(url[i].type).match, text),
                  calls |-> enc.calls \o rest.calls]

href(url, params) ==
    LET f == Format(url, params, 1) IN
    IF f.valid THEN Ret(Str(f.text), f.calls) ELSE Ret(Null, f.calls)

\* router.stateService.href(state, params)
Href(url, params) ==
    /\ \A i \in 1..Len(url) : url[i].static = "" => InstalledType(url[i].type) # NoType
    /\ CodecCall("href", NoType, <<[url |-> url, params |-> params]>>, href(url, params))

HrefNext ==
    \/ Configure(HrefTypes)
    \/ \E url \in UrlDecls : \E params \in [IdsOfUrl(url) -> HrefInputs] : Href(url, params)

HrefSpec == Init /\ [][HrefNext]_vars
(***************************************************************************)
(* Claims.                                                                 *)
(***************************************************************************)
NameRegistered(name) == \E i \in 1..Len(registeredTypes) : registeredTypes[i].name = name

\* C1: a registerType call whose descriptor has the name of a descriptor already
\* registered throws a RegistrationError and leaves the registered set, the
\* bindable set and the codecs installed on the router as they were.
C1_DuplicateNameRejected ==
    [][(/\ nCalls' = nCalls + 1
         /\ lastOp'.op = "registerType"
         /\ NameRegistered(lastOp'.type.name))
       => (/\ lastOp'.threw = "RegistrationError"
           /\ registeredTypes' = registeredTypes
           /\ bindableTypes' = bindableTypes
           /\ urlTypes' = urlTypes)]_vars

\* a second descriptor, different from the first of its name, was rejected and
\* the registry and the router still hold the first
C1_Witness ==
    /\ lastOp.op = "registerType"
    /\ lastOp.threw = "RegistrationError"
    /\ getTypeByName(lastOp.type.name, FALSE) # lastOp.type
    /\ getTypeByName(lastOp.type.name, FALSE).name = lastOp.type.name
    /\ InstalledType(lastOp.type.name) = getTypeByName(lastOp.type.name, FALSE)

Count(seq, x) == Cardinality({i \in 1..Len(seq) : seq[i] = x})
IsDecodedValue(v) == HasOwn(v, REPR_TOKEN) /\ HasOwn(v, RSLV_TOKEN)
RegisteredNames == {registeredTypes[i].name : i \in 1..Len(registeredTypes)}
BindableNames == {bindableTypes[i].name : i \in 1..Len(bindableTypes)}
\* the ids of the parameters of a state whose type name is in names
IdsTypedIn(state, names) ==
    UNION {{state[n].params[k].id :
              k \in {j \in 1..Len(state[n].params) : state[n].params[j].type \in names}} :
           n \in 1..Len(state)}
TypedIdsOf(state) == IdsTypedIn(state, RegisteredNames)
BindableIdsOf(state) == IdsTypedIn(state, BindableNames)
Holders(tr, id) == {n \in 1..Len(tr.tree) : HasParam(tr.tree[n], id)}
SlotsOf(tr, id) == {ix \in 1..Len(tr.slots) : tr.slots[ix].id = id}
JobPending(tid, ix) == \E j \in 1..Len(jobs) : jobs[j].tr = tid /\ jobs[j].ix = ix
RawStrings(tr) == \A id \in DOMAIN tr.raw : tr.raw[id].t = "str"

\* C2: once the promise of doTransition is fulfilled, every node of the 'to'
\* tree that has a typed parameter id in its paramValues holds, for that id,
\* one and the same resolved object, and none holds a Decoded Parameter Value.
C2_NodesHoldTheResolvedObject ==
    \A tid \in 1..Len(trans) :
        LET tr == trans[tid] IN
        tr.promise.st = "fulfilled" =>
            \A id \in TypedIdsOf(tr.state) :
                \E ix \in SlotsOf(tr, id) :
                    /\ tr.slots[ix].p0.st = "fulfilled"
                    /\ \A n \in Holders(tr, id) :
                        /\ ParamOf(tr.tree[n], id) = tr.slots[ix].p0.v
                        /\ ~IsDecodedValue(ParamOf(tr.tree[n], id))

\* a fulfilled transition with a typed id, given as a matched string, that two
\* nodes of the tree hold
C2_Witness ==
    \E tid \in 1..Len(trans) :
        /\ trans[tid].promise.st = "fulfilled"
        /\ RawStrings(trans[tid])
        /\ \E id \in TypedIdsOf(trans[tid].state) :
            Cardinality(Holders(trans[tid], id)) = 2

\* C3: the promise of doTransition is not fulfilled while the resolution of a
\* typed parameter is pending or its write-back has not happened; when it is
\* fulfilled the resolved values of all typed parameters are in the parameters
\* of the transition together.
C3_FulfilledOnlyAfterEveryWriteBack ==
    \A tid \in 1..Len(trans) :
        LET tr == trans[tid] IN
        tr.promise.st = "fulfilled" =>
            /\ \A ix \in 1..Len(tr.slots) :
                /\ tr.slots[ix].p0.st = "fulfilled"
                /\ tr.slots[ix].p1.st = "fulfilled"
            /\ \A id \in TypedIdsOf(tr.state) :
                /\ SlotsOf(tr, id) # {}
                /\ ~IsDecodedValue(ParamsTo(tr.tree, id))
                /\ ParamsTo(tr.tree, id) \in {tr.slots[ix].p0.v : ix \in SlotsOf(tr, id)}

\* a fulfilled transition of which one parameter resolved to a plain value and
\* another through a promise
C3_Witness ==
    \E tid \in 1..Len(trans) :
        /\ trans[tid].promise.st = "fulfilled"
        /\ \E ix, jx \in 1..Len(trans[tid].slots) :
            /\ trans[tid].slots[ix].kind = "value"
            /\ trans[tid].slots[jx].kind = "promise"

\* the rejections of the awaitables of a transition's parameters
RejectedSlots(tr) == {ix \in 1..Len(tr.slots) : tr.slots[ix].p0.st = "rejected"}
\* the rejection of the slot has gone through .then, .catch and Promise.all
RejectionDelivered(tid, ix) ==
    /\ trans[tid].slots[ix].p0.st = "rejected"
    /\ trans[tid].slots[ix].p2.st = "rejected"
    /\ ~JobPending(tid, ix)

\* C4 as stated: when the awaitable of a typed parameter rejects, the promise of
\* doTransition rejects with a ResolveError that carries the id of that
\* parameter and the cause of the rejection.
C4_RejectsWithIdAndCause ==
    \A tid \in 1..Len(trans) :
        \A ix \in 1..Len(trans[tid].slots) :
            (trans[tid].promise.st # "none" /\ RejectionDelivered(tid, ix)) =>
                /\ trans[tid].promise.st = "rejected"
                /\ trans[tid].promise.v.class = "UrlTypeFactoryResolveError"
                /\ trans[tid].promise.v.message.param = trans[tid].slots[ix].id
                /\ Str(trans[tid].promise.v.message.error) = trans[tid].slots[ix].p0.v

\* C4 amended: when the awaitable of a typed parameter rejects, the promise of
\* doTransition rejects with a ResolveError whose message names the id of a
\* parameter whose awaitable rejected and the string conversion of the cause of
\* that rejection; it is that parameter's own id and cause when no other
\* parameter of the transition rejected.
C4_RejectsWithMessageOfIdAndCauseText ==
    \A tid \in 1..Len(trans) :
        \A ix \in 1..Len(trans[tid].slots) :
            LET tr == trans[tid] IN
            (tr.promise.st # "none" /\ RejectionDelivered(tid, ix)) =>
                /\ tr.promise.st = "rejected"
                /\ tr.promise.v.class = "UrlTypeFactoryResolveError"
                /\ \E jx \in RejectedSlots(tr) :
                    /\ tr.promise.v.message.param = tr.slots[jx].id
                    /\ tr.promise.v.message.error = String(tr.slots[jx].p0.v)
                /\ RejectedSlots(tr) = {ix} =>
                    /\ tr.promise.v.message.param = tr.slots[ix].id
                    /\ tr.promise.v.message.error = String(tr.slots[ix].p0.v)

\* a transition rejected because the awaitable of its parameter rejected with
\* the number 404
C4_Witness ==
    \E tid \in 1..Len(trans) :
        /\ trans[tid].promise.st = "rejected"
        /\ \E ix \in 1..Len(trans[tid].slots) :
            /\ RejectionDelivered(tid, ix)
            /\ trans[tid].slots[ix].p0.v = Num(404)
            /\ trans[tid].promise.v.message.error = "404"

\* C5: for a transition whose parameters were all supplied as matched strings,
\* doTransition calls resolve exactly once for each typed parameter id of the
\* target state.
C5_ResolveOncePerTypedId ==
    \A tid \in 1..Len(trans) :
        (trans[tid].ran /\ RawStrings(trans[tid])) =>
            \A id \in TypedIdsOf(trans[tid].state) :
                Count(trans[tid].resolveCalls, id) = 1

\* C6: no sequence of encode, decode, is and equals calls makes a call of
\* resolve, and the representation of an already-resolved object, as decode
\* marks it and as encode returns it, is represent of that object.
C6_CodecNeverResolves ==
    /\ resolveCount = 0
    /\ \A i \in 1..Len(lastOp.calls) : lastOp.calls[i].fn # "resolve"
    /\ (lastOp.op = "decode" /\ lastOp.args[1] \in DomainObjects) =>
        Get(lastOp.ret, REPR_TOKEN) = Str(String(Get(lastOp.args[1], "pk")))
    /\ (lastOp.op = "encode" /\ lastOp.args[1] \in DomainObjects) =>
        lastOp.ret = Str(String(Get(lastOp.args[1], "pk")))

\* the second codec call: a decoded primitive, whose closure would resolve, was
\* encoded
C6_Witness ==
    /\ lastOp.op = "encode"
    /\ nCalls = MaxCalls
    /\ IsDecodedValue(lastOp.args[1])
    /\ Get(lastOp.args[1], RSLV_TOKEN).k = "resolve"
    /\ lastOp.ret = Str("7")
    /\ resolveCount = 0

\* C7: for a typed parameter supplied as a non-null object, doTransition never
\* calls resolve, and what it writes into the nodes of the tree is that object.
C7_SuppliedObjectIsNotResolved ==
    \A tid \in 1..Len(trans) :
        LET tr == trans[tid] IN
        tr.ran =>
            \A id \in TypedIdsOf(tr.state) :
                (Truthy(tr.raw[id]) /\ IsObject(tr.raw[id])) =>
                    /\ Count(tr.resolveCalls, id) = 0
                    /\ \A ix \in SlotsOf(tr, id) :
                        tr.slots[ix].p1.st = "fulfilled" =>
                            /\ tr.slots[ix].p1.v = tr.raw[id]
                            /\ \A n \in Holders(tr, id) :
                                ParamOf(tr.tree[n], id) = tr.raw[id]

\* a fulfilled transition with a typed parameter supplied as an object
C7_Witness ==
    \E tid \in 1..Len(trans) :
        /\ trans[tid].promise.st = "fulfilled"
        /\ \E id \in TypedIdsOf(trans[tid].state) :
            /\ IsObject(trans[tid].raw[id])
            /\ ParamsTo(trans[tid].tree, id) = trans[tid].raw[id]

\* resolveFn: (t) => t.params()[targetParamId]
resolveFn(tr, targetParamId) == ParamsTo(tr.tree, targetParamId)

\* C8: doTransition adds to the transition a resolvable named by a typed
\* parameter id exactly when the type of the parameter is in the bindable
\* subset, and once the promise of doTransition is fulfilled the function of the
\* resolvable yields the resolved object of that id.
C8_ResolvableIffBindable ==
    \A tid \in 1..Len(trans) :
        LET tr == trans[tid] IN
        (tr.ran /\ tr.threw = "") =>
            /\ \A id \in TypedIdsOf(tr.state) :
                (Count(tr.resolvables, id) > 0) <=> (id \in BindableIdsOf(tr.state))
            /\ RangeOf(tr.resolvables) \subseteq TypedIdsOf(tr.state)
            /\ tr.promise.st = "fulfilled" =>
                \A id \in RangeOf(tr.resolvables) :
                    /\ ~IsDecodedValue(resolveFn(tr, id))
                    /\ \E ix \in SlotsOf(tr, id) :
                        tr.slots[ix].p0 = Fulfilled(resolveFn(tr, id))

\* a fulfilled transition with a typed parameter that has a resolvable and one
\* that has none
C8_Witness ==
    \E tid \in 1..Len(trans) :
        /\ trans[tid].promise.st = "fulfilled"
        /\ \E id, other \in TypedIdsOf(trans[tid].state) :
            /\ Count(trans[tid].resolvables, id) > 0
            /\ Count(trans[tid].resolvables, other) = 0
            /\ trans[tid].raw[id].t = "str"

\* C9: the transition-start hook runs doTransition for a transition exactly
\* when some parameter on the path of the target state has a type name of the
\* registered set; a transition without one proceeds and nothing is awaited.
C9_HookRunsIffTypedParameter ==
    \A tid \in 1..Len(trans) :
        LET tr == trans[tid] IN
        /\ tr.ran <=> (TypedIdsOf(tr.state) # {})
        /\ ~tr.ran =>
            /\ tr.promise.st = "none"
            /\ tr.slots = <<>>
            /\ tr.resolveCalls = <<>>
            /\ tr.resolvables = <<>>
            /\ \A j \in 1..Len(jobs) : jobs[j].tr # tid

\* doTransition ran for a state whose only typed parameter is of a type that
\* is not bindable
C9_Witness ==
    \E tid \in 1..Len(trans) :
        /\ trans[tid].ran
        /\ TypedIdsOf(trans[tid].state) # {}
        /\ BindableIdsOf(trans[tid].state) = {}

\* C10: encode returns the representation marker of an object that carries one,
\* whatever the marker is and without calling represent, and represent of the
\* object otherwise.
C10_EncodeReturnsTheMarker ==
    (lastOp.op = "encode" /\ lastOp.threw = "") =>
        IF HasOwn(lastOp.args[1], REPR_TOKEN)
        THEN /\ lastOp.ret = Get(lastOp.args[1], REPR_TOKEN)
             /\ lastOp.calls = <<>>
        ELSE lastOp.ret = Str(String(Get(lastOp.args[1], "pk")))

NonNullObject(v) == v.t \in {"obj", "promise"}
RepresentationOf(obj) == Str(String(Get(obj, "pk")))

\* C11: decode calls resolve zero times.  For a non-null object the result's
\* representation marker is represent of the object and its resolver marker
\* returns the object itself without a call of resolve; for any other input the
\* representation marker is the input itself and every invocation of the
\* resolver marker makes exactly the call resolve(input).
C11_DecodeDefersResolve ==
    lastOp.op = "decode" =>
        LET raw == lastOp.args[1]
            result == lastOp.ret
        IN /\ lastOp.threw = ""
           /\ ResolveCallsIn(lastOp.calls) = 0
           /\ \A kind \in ResolveKinds :
                LET r == InvokeResolver(result, kind, PromiseRef(1, 1)) IN
                IF NonNullObject(raw)
                THEN /\ Get(result, REPR_TOKEN) = RepresentationOf(raw)
                     /\ r = Ret(raw, <<>>)
                ELSE /\ Get(result, REPR_TOKEN) = raw
                     /\ r.calls = <<Call("resolve", lastOp.type, raw)>>

\* decode was given the empty string: the marker is the empty string and the
\* resolver marker is the closure over resolve, which was not called
C11_Witness ==
    /\ lastOp.op = "decode"
    /\ lastOp.args[1] = Str("")
    /\ Get(lastOp.ret, REPR_TOKEN) = Str("")
    /\ Get(lastOp.ret, RSLV_TOKEN) = Fn("resolve", lastOp.type, Str(""))
    /\ resolveCount = 0

\* C12: is returns true exactly for a non-null object that carries both the
\* representation marker and the resolver marker; it is true of what decode
\* returns for any input, and false of every primitive and of every object
\* that lacks one of the markers.
C12_IsRecognisesDecodedValues ==
    /\ lastOp.op = "is" =>
        /\ lastOp.threw = ""
        /\ lastOp.ret = Bool(/\ lastOp.args[1].t = "obj"
                             /\ REPR_TOKEN \in DOMAIN lastOp.args[1].f
                             /\ RSLV_TOKEN \in DOMAIN lastOp.args[1].f)
    /\ \A type \in RangeOf(urlTypes) :
        \A x \in CodecValues \cup {Undef} :
            is(type, decode(type, x).ret) = Ret(Bool(TRUE), <<>>)

\* is was asked about an object that carries only one of the markers
C12_Witness ==
    /\ lastOp.op = "is"
    /\ lastOp.args[1] \in HalfMarkedObjects
    /\ lastOp.ret = Bool(FALSE)

ToLowerCase(s) == CASE s = "A" -> "a" [] OTHER -> s
EqualIgnoringCase(s, t) == ToLowerCase(s) = ToLowerCase(t)
CarriesRepresentation(v) == v.t = "obj" /\ REPR_TOKEN \in DOMAIN v.f

\* C13: equals(a, b) is, when both carry the representation marker, whether the
\* markers are the same value; otherwise, when both are non-null objects,
\* whether represent(a) and represent(b) are equal ignoring case; otherwise
\* whether a and b are identical.
C13_EqualsByMarkerThenRepresentation ==
    lastOp.op = "equals" =>
        LET a == lastOp.args[1]
            b == lastOp.args[2]
        IN /\ lastOp.threw = ""
           /\ lastOp.ret =
                IF CarriesRepresentation(a) /\ CarriesRepresentation(b)
                THEN Bool(a.f[REPR_TOKEN] = b.f[REPR_TOKEN])
                ELSE IF NonNullObject(a) /\ NonNullObject(b)
                THEN Bool(EqualIgnoringCase(RepresentationOf(a).s, RepresentationOf(b).s))
                ELSE Bool(a = b)

\* equals found two different objects whose representations differ in case
\* only to be equal
C13_Witness ==
    /\ lastOp.op = "equals"
    /\ lastOp.args[1] = DomainObj(Str("a"), Str("x"))
    /\ lastOp.args[2] = DomainObj(Str("A"), Str("x"))
    /\ lastOp.ret = Bool(TRUE)

\* the text a supplied value stands for in a url: the primitive itself, or
\* represent of an object
SuppliedText(value) ==
    IF NonNullObject(value) THEN RepresentationOf(value).s ELSE String(value)
RECURSIVE UrlOfSupplied(_, _, _)
UrlOfSupplied(url, params, i) ==
    IF i > Len(url) THEN ""
    ELSE (IF url[i].static # "" THEN url[i].static
          ELSE SuppliedText(params[url[i].id]))
         \o UrlOfSupplied(url, params, i + 1)
\* some parameter's encoded value, as the codec returns it, fails the pattern
SomeEncodedFails(url, params) ==
    \E i \in 1..Len(url) :
        /\ url[i].static = ""
        /\ ~Matches(InstalledType(url[i].type).match,
                    String(EncodeParam(url[i].type, params[url[i].id]).ret))

\* C14: building the url of a state with typed parameters yields no url when
\* the encoded form of some supplied value fails the pattern of its type, and
\* otherwise the static segments of the state's url joined with, for each
\* parameter, the supplied primitive itself or represent of the supplied
\* object.
C14_UrlOfSegmentsAndRepresentations ==
    lastOp.op = "href" =>
        LET url == lastOp.args[1].url
            params == lastOp.args[1].params
        IN IF SomeEncodedFails(url, params)
           THEN lastOp.ret = Null
           ELSE lastOp.ret = Str(UrlOfSupplied(url, params, 1))

RECURSIVE ParamsTypedIn(_, _, _)
\* the parameters of the path nodes from n on whose type name is in names, in
\* the order of the path
ParamsTypedIn(state, names, n) ==
    IF n > Len(state) THEN <<>>
    ELSE SelectSeq(state[n].params, LAMBDA p : p.type \in names)
         \o ParamsTypedIn(state, names, n + 1)

\* C15: getTypeParamsFromStateObject(state, bindableOnly) returns the
\* parameters of all path nodes of the state whose type name is in the bindable
\* set (bindableOnly) or in the registered set (otherwise), in path order and
\* with a parameter id repeated as often as the path declares it, and the call
\* leaves the registry as it was.
C15_TypedParamsInPathOrder ==
    /\ [](lastOp.op = "getTypeParamsFromStateObject" =>
            lastOp.ret = ParamsTypedIn(lastOp.args[1].state,
                                       IF lastOp.args[1].bindableOnly
                                       THEN BindableNames ELSE RegisteredNames, 1))
    /\ [][lastOp'.op = "getTypeParamsFromStateObject" => UNCHANGED registryVars]_vars

\* the bindable parameters of a state whose parent declares the same id were
\* asked for while a type that is not bindable was registered too
C15_Witness ==
    /\ lastOp.op = "getTypeParamsFromStateObject"
    /\ lastOp.args[1].bindableOnly
    /\ Len(lastOp.ret) = 2
    /\ lastOp.ret[1].id = lastOp.ret[2].id
    /\ RegisteredNames # BindableNames

\* the first parameter of the transition whose awaitable rejected
FirstRejected(tr) ==
    tr.settled[CHOOSE k \in 1..Len(tr.settled) :
                  /\ tr.slots[tr.settled[k]].p0.st = "rejected"
                  /\ \A j \in 1..(k - 1) : tr.slots[tr.settled[j]].p0.st # "rejected"]
SettledBefore(tr, ix, jx) ==
    \E k, l \in 1..Len(tr.settled) : k < l /\ tr.settled[k] = ix /\ tr.settled[l] = jx

\* C16: the promise of doTransition is rejected only with the ResolveError of
\* the first of the transition's parameters to reject, and is rejected as soon
\* as that rejection has gone through the chain, whatever the state of the
\* other resolutions; once a resolution has fulfilled and its write-back ran,
\* before or after the rejection, every tree node that holds its id holds a
\* resolved value of that id.
C16_RejectsWithTheFirstFailure ==
    \A tid \in 1..Len(trans) :
        LET tr == trans[tid] IN
        tr.promise.st # "none" =>
            /\ tr.promise.st = "rejected" =>
                /\ RejectedSlots(tr) # {}
                /\ tr.promise.v =
                     UrlTypeFactoryResolveError(tr.slots[FirstRejected(tr)].id,
                                                tr.slots[FirstRejected(tr)].p0.v)
            /\ \A ix \in 1..Len(tr.slots) :
                /\ RejectionDelivered(tid, ix) => tr.promise.st = "rejected"
                /\ tr.slots[ix].p1.st = "fulfilled" =>
                    \E jx \in SlotsOf(tr, tr.slots[ix].id) :
                        /\ tr.slots[jx].p1.st = "fulfilled"
                        /\ \A n \in Holders(tr, tr.slots[ix].id) :
                            ParamOf(tr.tree[n], tr.slots[ix].id) = tr.slots[jx].p0.v

\* a transition rejected with its second parameter's failure, whose first
\* parameter resolved after that failure and was written into the tree
C16_Witness ==
    \E tid \in 1..Len(trans) :
        LET tr == trans[tid] IN
        /\ tr.promise.st = "rejected"
        /\ Len(tr.slots) = 2
        /\ tr.slots[1].id # tr.slots[2].id
        /\ tr.promise.v.message.param = tr.slots[2].id
        /\ SettledBefore(tr, 2, 1)
        /\ tr.slots[1].p1.st = "fulfilled"
        /\ ~IsDecodedValue(ParamsTo(tr.tree, tr.slots[1].id))
        /\ ParamsTo(tr.tree, tr.slots[1].id) = tr.slots[1].p0.v

\* the step is the .then callback of slot ix of transition tid, run after the
\* slot's awaitable fulfilled: a write-back
WritesBack(tid, ix) ==
    /\ trans[tid].slots[ix].p1.st = "pending"
    /\ trans'[tid].slots[ix].p1.st = "fulfilled"
\* the value a node holds for an id changes in the step
Overwritten(tid, n, id) ==
    /\ HasParam(trans[tid].tree[n], id)
    /\ ParamOf(trans'[tid].tree[n], id) # ParamOf(trans[tid].tree[n], id)

\* C17: a tree node's value for a typed parameter id is overwritten only by the
\* write-back of a resolution of that id that has fulfilled; one write-back
\* writes the fulfilled value into every node holding the id in a single step
\* in which no other parameter's slot or value changes; and no node is written
\* for the same id by two writers.
C17_WriteBackAfterOwnResolutionInOneStep ==
    [][\A tid \in 1..Len(trans) :
        LET tr == trans[tid] IN
        /\ \A n \in 1..Len(tr.tree) :
            \A id \in IdsOfState(tr.state) :
                Overwritten(tid, n, id) =>
                    \E ix \in SlotsOf(tr, id) :
                        /\ tr.slots[ix].p0.st = "fulfilled"
                        /\ WritesBack(tid, ix)
        /\ \A ix \in 1..Len(tr.slots) :
            WritesBack(tid, ix) =>
                /\ tr.slots[ix].p0.st = "fulfilled"
                /\ \A n \in Holders(tr, tr.slots[ix].id) :
                    ParamOf(trans'[tid].tree[n], tr.slots[ix].id) = tr.slots[ix].p0.v
                /\ \A jx \in 1..Len(tr.slots) :
                    jx # ix => trans'[tid].slots[jx] = tr.slots[jx]
                /\ \A n \in 1..Len(tr.tree) :
                    \A id \in IdsOfState(tr.state) \ {tr.slots[ix].id} :
                        ~Overwritten(tid, n, id)
                /\ \A jx \in SlotsOf(tr, tr.slots[ix].id) \ {ix} :
                    tr.slots[jx].p1.st # "fulfilled"]_vars

\* the value a node held for an id before doTransition
ValueBefore(tr, n, id) == ParamOf(BuildTree(tr.state, tr.raw)[n], id)

\* C18: when the resolution of a typed parameter has rejected, every tree node
\* holds for that parameter id the value it had before doTransition; a value
\* written for a parameter stays written whatever happens to the others; and
\* for each id either all nodes holding it have the value from before or all
\* have one and the same resolved value.
C18_RejectedParameterIsNotWritten ==
    \A tid \in 1..Len(trans) :
        LET tr == trans[tid] IN
        /\ \A ix \in 1..Len(tr.slots) :
            /\ tr.slots[ix].p0.st = "rejected" =>
                \A n \in Holders(tr, tr.slots[ix].id) :
                    ParamOf(tr.tree[n], tr.slots[ix].id) = ValueBefore(tr, n, tr.slots[ix].id)
            /\ tr.slots[ix].p1.st = "fulfilled" =>
                \A n \in Holders(tr, tr.slots[ix].id) :
                    ParamOf(tr.tree[n], tr.slots[ix].id)
                        \in {tr.slots[jx].p0.v : jx \in SlotsOf(tr, tr.slots[ix].id)}
        /\ \A id \in IdsOfState(tr.state) :
            \/ \A n \in Holders(tr, id) : ParamOf(tr.tree[n], id) = ValueBefore(tr, n, id)
            \/ \E ix \in SlotsOf(tr, id) :
                /\ tr.slots[ix].p1.st = "fulfilled"
                /\ \A n \in Holders(tr, id) : ParamOf(tr.tree[n], id) = tr.slots[ix].p0.v

IsAwaitable(v) == v.t = "promise"
\* what the resolver marker of the slot returned to doTransition
ResultOf(tid, ix) ==
    InvokeResolver(trans[tid].slots[ix].value, trans[tid].slots[ix].kind,
                   PromiseRef(tid, ix)).ret
\* the awaitable doTransition waits for, if the result holds one
AwaitableOf(result) ==
    IF IsAwaitable(result) THEN result
    ELSE IF NonNullObject(result) /\ IsAwaitable(Get(result, "$promise"))
    THEN Get(result, "$promise") ELSE Undef

\* C19: the value the write-back of a parameter writes is, when the result of
\* its resolver is an awaitable or has a $promise that is one, the value that
\* awaitable was fulfilled with, and otherwise (a plain object, a falsy value,
\* an object whose $promise is no awaitable) the result itself, written without
\* waiting for anything.
C19_WritesWhatTheAwaitableFulfilsWith ==
    \A tid \in 1..Len(trans) :
        LET tr == trans[tid] IN
        \A ix \in 1..Len(tr.slots) :
            LET result == ResultOf(tid, ix)
                written == tr.slots[ix].p1.v
            IN tr.slots[ix].p1.st = "fulfilled" =>
                /\ IF AwaitableOf(result) # Undef
                   THEN /\ AwaitableOf(result) = PromiseRef(tid, ix)
                        /\ Count(tr.settled, ix) = 1
                        /\ written = FulfilValue(tr.slots[ix])
                        /\ written # result
                   ELSE /\ Count(tr.settled, ix) = 0
                        /\ written = result
                /\ SlotsOf(tr, tr.slots[ix].id) = {ix} =>
                    \A n \in Holders(tr, tr.slots[ix].id) :
                        ParamOf(tr.tree[n], tr.slots[ix].id) = written

\* a fulfilled transition whose parameters resolved to an object with a
\* $promise that is a promise and to a falsy value
C19_Witness ==
    \E tid \in 1..Len(trans) :
        /\ trans[tid].promise.st = "fulfilled"
        /\ \E ix, jx \in 1..Len(trans[tid].slots) :
            /\ trans[tid].slots[ix].kind = "$promise"
            /\ trans[tid].slots[jx].kind = "falsy"
            /\ ParamsTo(trans[tid].tree, trans[tid].slots[jx].id) = Num(0)
            /\ ParamsTo(trans[tid].tree, trans[tid].slots[ix].id).t = "obj"
            /\ ~HasOwn(ParamsTo(trans[tid].tree, trans[tid].slots[ix].id), "$promise")

\* C20: a write-back of one transition leaves the tree nodes of every other
\* transition as they are, the tree nodes of a transition change only by a
\* write-back of that transition, and no step of a doTransition run (its
\* start, a settlement, a promise reaction) changes the registered set or the
\* bindable set.
C20_WriteBackStaysInItsTransition ==
    [][/\ \A tid \in 1..Len(trans) :
            /\ \A ix \in 1..Len(trans[tid].slots) :
                WritesBack(tid, ix) =>
                    \A other \in 1..Len(trans) \ {tid} :
                        trans'[other] = trans[other]
            /\ trans'[tid].tree # trans[tid].tree =>
                \E ix \in 1..Len(trans[tid].slots) : WritesBack(tid, ix)
       /\ (trans' # trans \/ jobs' # jobs) =>
            /\ registeredTypes' = registeredTypes
            /\ bindableTypes' = bindableTypes]_vars

\* the second transition wrote its resolved value back while a resolution of
\* the first, started before it, is still pending and its tree untouched
C20_Witness ==
    /\ Len(trans) = 2
    /\ \E ix \in 1..Len(trans[1].slots) :
        /\ trans[1].slots[ix].kind = "promise"
        /\ trans[1].slots[ix].p0.st = "pending"
    /\ trans[1].tree = BuildTree(trans[1].state, trans[1].raw)
    /\ \E jx \in 1..Len(trans[2].slots) :
        /\ trans[2].slots[jx].kind = "promise"
        /\ trans[2].slots[jx].p1.st = "fulfilled"
        /\ ParamsTo(trans[2].tree, trans[2].slots[jx].id) = trans[2].slots[jx].p0.v
    /\ registeredTypes = PendingTypes

\* doTransition returned a promise for transition tid
Returned(tid) == Len(trans) >= tid /\ trans[tid].promise.st # "none"
AllSettled(tid) ==
    \A ix \in 1..Len(trans[tid].slots) : trans[tid].slots[ix].p0.st # "pending"

\* C21: once every awaitable of a transition's resolutions has settled, the
\* promise doTransition returned settles: it becomes fulfilled when all of them
\* fulfilled and rejected when one of them rejected.
C21_PromiseEventuallySettles ==
    \A tid \in 1..MaxTransitions :
        /\ (Returned(tid) /\ AllSettled(tid) /\ RejectedSlots(trans[tid]) = {})
               ~> (Returned(tid) /\ trans[tid].promise.st = "fulfilled")
        /\ (Returned(tid) /\ AllSettled(tid) /\ RejectedSlots(trans[tid]) # {})
               ~> (Returned(tid) /\ trans[tid].promise.st = "rejected")

\* the promise of a transition with two awaited resolutions, one fulfilled and
\* then one rejected, has settled and the job queue is empty
C21_Witness ==
    \E tid \in 1..Len(trans) :
        LET tr == trans[tid] IN
        /\ Len(tr.slots) = 2
        /\ tr.settled = <<1, 2>>
        /\ tr.slots[1].p0.st = "fulfilled"
        /\ tr.slots[2].p0.st = "rejected"
        /\ tr.promise.st = "rejected"
        /\ jobs = <<>>

\* C22: encode of what decode made of a string matched from a url, the empty
\* string included, is that string; encode of what decode made of a non-null
\* object is represent of the object, and represent is called on nothing but
\* the object.
C22_EncodeUndoesDecode ==
    lastOp.op = "encode" =>
        /\ \A raw \in {v \in Primitives : v.t = "str"} :
            lastOp.args[1] = decode(lastOp.type, raw).ret =>
                /\ lastOp.threw = ""
                /\ lastOp.ret = raw
                /\ lastOp.calls = <<>>
        /\ \A obj \in DomainObjects :
            lastOp.args[1] = decode(lastOp.type, obj).ret =>
                /\ lastOp.threw = ""
                /\ lastOp.ret = RepresentationOf(obj)
                /\ \A i \in 1..Len(lastOp.calls) : lastOp.calls[i].arg = obj

IsPrefix(seq, longer) ==
    Len(seq) <= Len(longer) /\ \A i \in 1..Len(seq) : longer[i] = seq[i]
\* the entry of a list that has the name; null (NoType) when there is none
EntryNamed(list, name) ==
    IF \E i \in 1..Len(list) : list[i].name = name
    THEN list[CHOOSE i \in 1..Len(list) : list[i].name = name]
    ELSE NoType

\* C23: after any registerType calls, failed ones included, no two entries of
\* the registered set share a name, every entry of the bindable set is an entry
\* of the registered set with bindable true, getTypeByName(name, true) returns
\* an entry only if getTypeByName(name, false) returns the same entry, and
\* getTypeByName returns the entry of that name of the list asked for; the sets
\* only grow, and getTypeByName changes neither.
C23_RegistryStaysConsistent ==
    /\ [](/\ \A i, j \in 1..Len(registeredTypes) :
               registeredTypes[i].name = registeredTypes[j].name => i = j
          /\ \A i \in 1..Len(bindableTypes) :
               /\ bindableTypes[i].bindable
               /\ \E j \in 1..Len(registeredTypes) :
                   registeredTypes[j] = bindableTypes[i]
          /\ \A name \in TypeNames \cup {"string"} :
               (getTypeByName(name, TRUE) # NoType =>
                   getTypeByName(name, FALSE) = getTypeByName(name, TRUE))
          /\ (lastOp.op = "getTypeByName" =>
               lastOp.ret = EntryNamed(IF lastOp.args[1].bindableOnly
                                       THEN bindableTypes ELSE registeredTypes,
                                       lastOp.args[1].name)))
    /\ [][/\ IsPrefix(registeredTypes, registeredTypes')
          /\ IsPrefix(bindableTypes, bindableTypes')
          /\ (lastOp'.op = "getTypeByName" => UNCHANGED registryVars)]_vars

\* a bindable descriptor was rejected because a descriptor of its name that is
\* not bindable is registered: the bindable set did not get it
C23_Witness ==
    /\ lastOp.op = "registerType"
    /\ lastOp.threw = "RegistrationError"
    /\ lastOp.type.bindable
    /\ getTypeByName(lastOp.type.name, TRUE) = NoType
    /\ getTypeByName(lastOp.type.name, FALSE).name = lastOp.type.name
    /\ bindableTypes # <<>>

\* C24: every failure of a resolution surfaces the same way, whether resolve
\* throws when the resolver marker is invoked or its awaitable rejects later:
\* doTransition does not throw, it returns a promise, and when that promise is
\* rejected it is rejected with a ResolveError.
C24_FailuresSurfaceAsResolveError ==
    \A tid \in 1..Len(trans) :
        LET tr == trans[tid] IN
        tr.ran =>
            /\ tr.threw = ""
            /\ tr.promise.st # "none"
            /\ (tr.promise.st = "rejected" =>
                   tr.promise.v.class = "UrlTypeFactoryResolveError")
====
